---------------------------- MODULE Spec2Model ----------------------------
(***************************************************************************)
(* Model of scripts/train_transformer_autoencoder.py: the training driver  *)
(* main() with train_epoch, validate_epoch and the checkpoint writes, and  *)
(* the batch assembler collate_with_masking together with the block-mask   *)
(* generator it invokes per sample.                                        *)
(*                                                                         *)
(* Floats that matter to control flow (losses) are modelled as tagged      *)
(* rationals with the IEEE specials +inf and NaN, because the comparison   *)
(* `val_loss < best_val_loss` behaves differently on them.                 *)
(***************************************************************************)
EXTENDS Integers, Sequences, FiniteSets, TLC

VARIABLES
    \* ---- main(): command line and control ----
    cfg,            \* parsed arguments and the shapes of the two loaded arrays
    pc,             \* position of main() in its code
    error,          \* the exception that ended the run, "none" otherwise
    \* ---- main(): split and scheduler set-up ----
    train_size, val_size,
    train_bad,      \* indices of the train subset that timestamps[] lacks
    val_bad,        \* the same for the validation subset
    total_steps,    \* OneCycleLR total_steps
    \* ---- training state ----
    epoch,          \* loop variable of `for epoch in range(args.epochs)`
    mode,           \* model.train() / model.eval()
    params,         \* version of the model parameters (number of updates applied)
    grads,          \* state of the accumulated gradients
    opt_state,      \* optimizer internal state (number of optimizer steps)
    sched_steps,    \* scheduler step counter
    clip_count,     \* number of clip_grad_norm_ calls
    \* ---- locals of train_epoch / validate_epoch ----
    left,           \* samples of the loader's pass not fetched yet
    n_batches, total_loss, batch_loss,
    \* ---- bookkeeping of main() ----
    best_val_loss, train_losses, val_losses, train_metrics, val_metrics,
    \* ---- durable output ----
    files,          \* checkpoint files: name -> saved dictionary
    plots,          \* epochs (1-based) for which a reconstruction plot exists
    \* ---- collate_with_masking and the mask generator ----
    gpc,            \* position of the batch assembler
    gcfg,           \* seq_len, batch size and masking bounds of the call
    batch_flux,     \* raw value sequences of the batch
    gi,             \* loop variable of `for i in range(batch_size)`
    target_count,   \* generator: target masked-count of the current sample
    block_size,     \* generator: drawn block size of the current sample
    mask,           \* generator: mask of the current sample
    attempts,       \* generator: placements made for the current sample
    batch_inputs, batch_targets, batch_masks

mainVars  == <<cfg, pc, error, train_size, val_size, train_bad, val_bad, total_steps,
               epoch, mode, params, grads, opt_state, sched_steps, clip_count,
               left, n_batches, total_loss, batch_loss,
               best_val_loss, train_losses, val_losses, train_metrics, val_metrics,
               files, plots>>
genVars   == <<gpc, gcfg, batch_flux, gi, target_count, block_size, mask, attempts,
               batch_inputs, batch_targets, batch_masks>>
vars      == <<mainVars, genVars>>

splitVars == <<train_size, val_size, train_bad, val_bad, total_steps>>
modelVars == <<params, grads, opt_state, sched_steps, clip_count>>
loopVars  == <<left, n_batches, total_loss, batch_loss>>
histVars  == <<best_val_loss, train_losses, val_losses, train_metrics, val_metrics>>
outVars   == <<files, plots>>

(***************************************************************************)
(* Bounds of the model.                                                    *)
(***************************************************************************)
MaxEpochs    == 3      \* --epochs ranges over 0..MaxEpochs
MaxSaveEvery == 2      \* --save_every ranges over 0..MaxSaveEvery

(***************************************************************************)
(* Floats: a finite non-negative rational num/den, +inf, or NaN.           *)
(***************************************************************************)
Fin(n)   == [k |-> "fin", num |-> n, den |-> 1]
Inf      == [k |-> "inf", num |-> 0, den |-> 1]
NaN      == [k |-> "nan", num |-> 0, den |-> 1]
NoValue  == [k |-> "absent", num |-> 0, den |-> 1]

IsFinite(a) == a.k = "fin"

\* a + b for operands whose denominators agree (batch losses have den = 1)
FloatAdd(a, b) ==
    IF a.k = "nan" \/ b.k = "nan" THEN NaN
    ELSE IF a.k = "inf" \/ b.k = "inf" THEN Inf
    ELSE [k |-> "fin", num |-> a.num + b.num, den |-> a.den]

\* a / n for an integer n > 0
FloatDiv(a, n) ==
    IF a.k = "fin" THEN [k |-> "fin", num |-> a.num, den |-> a.den * n] ELSE a

\* a < b as IEEE 754 orders them: every comparison with NaN is false
FloatLt(a, b) ==
    IF a.k = "nan" \/ b.k = "nan" THEN FALSE
    ELSE IF a.k = "inf" THEN FALSE
    ELSE IF b.k = "inf" THEN TRUE
    ELSE a.num * b.den < b.num * a.den


(***************************************************************************)
(* Command lines and datasets the model explores.  n_flux and n_time are   *)
(* the first dimensions of the 'flux' and 'time' arrays of the input file; *)
(* val_pct is --val_split in percent.                                      *)
(***************************************************************************)
DefaultValPct == 15
NFluxSet   == {0, 3, 10}
BatchSizes == {2, 4}
ValPcts    == {0, DefaultValPct, 40}

Configs ==
    { [n_flux |-> nf, n_time |-> nt, batch_size |-> bs, val_pct |-> vp,
       epochs |-> e, save_every |-> se] :
        nf \in NFluxSet, nt \in 0..11, bs \in BatchSizes, vp \in ValPcts,
        e \in 0..MaxEpochs, se \in 0..MaxSaveEvery }

\* Arrays whose first dimensions differ by at most one row; mismatched arrays
\* are explored with the default split and a single batch size.
InputConfigs ==
    { c \in Configs :
        /\ c.n_time \in {c.n_flux - 1, c.n_flux, c.n_flux + 1}
        /\ (c.n_time # c.n_flux =>
               c.val_pct = DefaultValPct /\ c.batch_size = 2 /\ c.save_every = 1) }

\* Losses a batch can produce: the criterion is MSE, so a value is a
\* non-negative float, +inf on overflow, or NaN.
TrainBatchLosses == {Fin(1), NaN}
ValBatchLosses   == {Fin(1), Fin(2), Inf, NaN}

Min2(a, b) == IF a < b THEN a ELSE b
Max2(a, b) == IF a > b THEN a ELSE b

\* len(dataset): LightCurveDataset.__len__ is len(self.flux)
DatasetLen(c) == c.n_flux

\* val_size = int(len(dataset) * args.val_split)
ValSize(n, pct) == (n * pct) \div 100

\* len(DataLoader) with drop_last left at its default False
LoaderLen(n, bs) == (n + bs - 1) \div bs

HasNextBatchDropLast(l, bs) == l >= bs
\* whether the loader's iterator yields another batch (drop_last = False)
HasNextBatch(l, bs) == l > 0

\* size of the next batch the loader yields
NextBatchSize(l, bs) == Min2(l, bs)

PeriodicDueOffByOne(ep, se) == ep % se = 0
\* (epoch + 1) % args.save_every == 0
PeriodicDue(ep, se) == (ep + 1) % se = 0

\* (epoch + 1) % 10 == 0 or epoch == 0
PlotDue(ep) == (ep + 1) % 10 = 0 \/ ep = 0

BestFile        == <<"transformer_best", 0>>
FinalFile       == <<"transformer_final", 0>>
PeriodicFile(e) == <<"transformer_checkpoint_epoch", e>>

\* the dictionary handed to torch.save: `keys` are the entries it has
Snapshot(keys, ep, tl, vl) ==
    [keys |-> keys, epoch |-> ep, model_state_dict |-> params,
     optimizer_state_dict |-> opt_state, train_loss |-> tl, val_loss |-> vl]

BestKeys     == {"epoch", "model_state_dict", "optimizer_state_dict",
                 "train_loss", "val_loss", "config"}
PeriodicKeys == {"epoch", "model_state_dict", "optimizer_state_dict",
                 "val_loss", "config"}
FinalKeys    == {"epoch", "model_state_dict", "optimizer_state_dict", "config"}

Fail(e) == /\ pc' = "failed"
           /\ error' = e

(***************************************************************************)
(* The batch assembler is idle while main() is modelled.                   *)
(***************************************************************************)
NoGenCfg == [seq_len |-> 0, batch |-> 0, min_block |-> 0,
             has_max_block |-> FALSE, max_block |-> 0,
             min_pct |-> 0, max_pct |-> 0]

GenIdle ==
    /\ gpc = "idle"
    /\ gcfg = NoGenCfg
    /\ batch_flux = <<>>
    /\ gi = 0
    /\ target_count = 0
    /\ block_size = 0
    /\ mask = <<>>
    /\ attempts = 0
    /\ batch_inputs = <<>>
    /\ batch_targets = <<>>
    /\ batch_masks = <<>>

MainIdle ==
    /\ cfg = [n_flux |-> 0, n_time |-> 0, batch_size |-> 0, val_pct |-> 0,
              epochs |-> 0, save_every |-> 0]
    /\ pc = "idle"
    /\ error = "none"
    /\ train_size = 0 /\ val_size = 0 /\ train_bad = 0 /\ val_bad = 0
    /\ total_steps = 0
    /\ epoch = 0
    /\ mode = "train"
    /\ params = 0 /\ grads = "none" /\ opt_state = 0
    /\ sched_steps = 0 /\ clip_count = 0
    /\ left = 0 /\ n_batches = 0
    /\ total_loss = Fin(0) /\ batch_loss = NoValue
    /\ best_val_loss = NoValue
    /\ train_losses = <<>> /\ val_losses = <<>>
    /\ train_metrics = NoValue /\ val_metrics = NoValue
    /\ files = <<>>
    /\ plots = {}

(***************************************************************************)
(* main(): state once the arguments are parsed and the model exists.       *)
(***************************************************************************)
Init ==
    /\ cfg \in InputConfigs
    /\ pc = "load"
    /\ error = "none"
    /\ train_size = 0 /\ val_size = 0 /\ train_bad = 0 /\ val_bad = 0
    /\ total_steps = 0
    /\ epoch = 0
    /\ mode = "train"
    /\ params = 0 /\ grads = "none" /\ opt_state = 0
    /\ sched_steps = 0 /\ clip_count = 0
    /\ left = 0 /\ n_batches = 0
    /\ total_loss = Fin(0) /\ batch_loss = NoValue
    /\ best_val_loss = NoValue
    /\ train_losses = <<>> /\ val_losses = <<>>
    /\ train_metrics = NoValue /\ val_metrics = NoValue
    /\ files = <<>>
    /\ plots = {}
    /\ GenIdle

\* load_lightcurve_data and the dataset statistics: np.min of an array with no
\* elements raises ValueError.
LoadData ==
    /\ pc = "load"
    /\ IF cfg.n_flux = 0 \/ cfg.n_time = 0
         THEN Fail("ValueError")
         ELSE pc' = "split" /\ error' = error
    /\ UNCHANGED <<cfg, splitVars, epoch, mode, modelVars, loopVars, histVars,
                   outVars, genVars>>

\* LightCurveDataset(flux, timestamps) and random_split: the two arrays are
\* stored as they come, and the rows that timestamps lacks fall into either
\* subset.
SplitDataset ==
    /\ pc = "split"
    /\ LET n   == DatasetLen(cfg)
           vs  == ValSize(n, cfg.val_pct)
           ts  == n - vs
           bad == Max2(0, cfg.n_flux - cfg.n_time)
       IN /\ val_size' = vs
          /\ train_size' = ts
          /\ \E tb \in Max2(0, bad - vs) .. Min2(bad, ts) :
                /\ train_bad' = tb
                /\ val_bad' = bad - tb
    /\ pc' = "setup"
    /\ UNCHANGED <<cfg, error, total_steps, epoch, mode, modelVars, loopVars,
                   histVars, outVars, genVars>>

\* Loaders, model, optimizer, OneCycleLR (which rejects total_steps <= 0) and
\* the initial bookkeeping of the epoch loop.
Setup ==
    /\ pc = "setup"
    /\ LET steps == LoaderLen(train_size, cfg.batch_size) * cfg.epochs
       IN /\ total_steps' = steps
          /\ IF steps <= 0
               THEN Fail("ValueError") /\ UNCHANGED best_val_loss
               ELSE /\ pc' = "epoch"
                    /\ error' = error
                    /\ best_val_loss' = Inf
    /\ UNCHANGED <<cfg, train_size, val_size, train_bad, val_bad, epoch, mode,
                   modelVars, loopVars, train_losses, val_losses, train_metrics,
                   val_metrics, outVars, genVars>>

\* for epoch in range(args.epochs): enter train_epoch
EpochStart ==
    /\ pc = "epoch"
    /\ epoch < cfg.epochs
    /\ mode' = "train"
    /\ total_loss' = Fin(0)
    /\ n_batches' = 0
    /\ left' = train_size
    /\ pc' = "train_fetch"
    /\ UNCHANGED <<cfg, error, splitVars, epoch, modelVars, batch_loss,
                   histVars, outVars, genVars>>

\* for batch in dataloader (train): the loader collates the next batch;
\* __getitem__ raises IndexError on a row that timestamps lacks.
TrainFetch ==
    /\ pc = "train_fetch"
    /\ HasNextBatch(left, cfg.batch_size)
    /\ LET s == NextBatchSize(left, cfg.batch_size)
       IN \/ /\ left - train_bad >= s
             /\ left' = left - s
             /\ pc' = "train_forward"
             /\ error' = error
          \/ /\ train_bad >= 1
             /\ Fail("IndexError")
             /\ left' = left
    /\ UNCHANGED <<cfg, splitVars, epoch, mode, modelVars, n_batches, total_loss,
                   batch_loss, histVars, outVars, genVars>>

\* optimizer.zero_grad(), forward pass, the three losses, loss.backward()
TrainForward ==
    /\ pc = "train_forward"
    /\ \E l \in TrainBatchLosses : batch_loss' = l
    /\ grads' = "computed"
    /\ pc' = "train_clip"
    /\ UNCHANGED <<cfg, error, splitVars, epoch, mode, params, opt_state,
                   sched_steps, clip_count, left, n_batches, total_loss,
                   histVars, outVars, genVars>>

\* torch.nn.utils.clip_grad_norm_(model.parameters(), max_norm=1.0)
TrainClip ==
    /\ pc = "train_clip"
    /\ grads' = "clipped"
    /\ clip_count' = clip_count + 1
    /\ pc' = "train_opt"
    /\ UNCHANGED <<cfg, error, splitVars, epoch, mode, params, opt_state,
                   sched_steps, loopVars, histVars, outVars, genVars>>

\* optimizer.step(): taken whatever the value of the loss
TrainOptStep ==
    /\ pc = "train_opt"
    /\ params' = params + 1
    /\ opt_state' = opt_state + 1
    /\ pc' = "train_sched"
    /\ UNCHANGED <<cfg, error, splitVars, epoch, mode, grads, sched_steps,
                   clip_count, loopVars, histVars, outVars, genVars>>

TrainSchedStepPerEpoch ==
    /\ pc = "train_sched"
    /\ sched_steps' = IF left = 0 THEN sched_steps + 1 ELSE sched_steps
    /\ total_loss' = FloatAdd(total_loss, batch_loss)
    /\ n_batches' = n_batches + 1
    /\ pc' = "train_fetch"
    /\ UNCHANGED <<cfg, error, splitVars, epoch, mode, params, grads, opt_state,
                   clip_count, left, batch_loss, histVars, outVars, genVars>>

\* scheduler.step() and the running sums of the batch
TrainSchedStep ==
    /\ pc = "train_sched"
    /\ sched_steps' = sched_steps + 1
    /\ total_loss' = FloatAdd(total_loss, batch_loss)
    /\ n_batches' = n_batches + 1
    /\ pc' = "train_fetch"
    /\ UNCHANGED <<cfg, error, splitVars, epoch, mode, params, grads, opt_state,
                   clip_count, left, batch_loss, histVars, outVars, genVars>>

\* train_epoch returns the epoch means; main() appends to train_losses.
\* n_batches > 0 here, since Setup rejected an empty train loader.
TrainReturn ==
    /\ pc = "train_fetch"
    /\ ~HasNextBatch(left, cfg.batch_size)
    /\ train_metrics' = FloatDiv(total_loss, n_batches)
    /\ train_losses' = Append(train_losses, train_metrics')
    /\ pc' = "val_start"
    /\ UNCHANGED <<cfg, error, splitVars, epoch, mode, modelVars, loopVars,
                   best_val_loss, val_losses, val_metrics, outVars, genVars>>

\* validate_epoch: model.eval() and the zeroed accumulators
ValStart ==
    /\ pc = "val_start"
    /\ mode' = "eval"
    /\ total_loss' = Fin(0)
    /\ n_batches' = 0
    /\ left' = val_size
    /\ pc' = "val_fetch"
    /\ UNCHANGED <<cfg, error, splitVars, epoch, modelVars, batch_loss,
                   histVars, outVars, genVars>>

\* for batch in dataloader (validation)
ValFetch ==
    /\ pc = "val_fetch"
    /\ HasNextBatch(left, cfg.batch_size)
    /\ LET s == NextBatchSize(left, cfg.batch_size)
       IN \/ /\ left - val_bad >= s
             /\ left' = left - s
             /\ pc' = "val_forward"
             /\ error' = error
          \/ /\ val_bad >= 1
             /\ Fail("IndexError")
             /\ left' = left
    /\ UNCHANGED <<cfg, splitVars, epoch, mode, modelVars, n_batches, total_loss,
                   batch_loss, histVars, outVars, genVars>>

ValForwardWithGrad ==
    /\ pc = "val_forward"
    /\ \E l \in ValBatchLosses :
          /\ batch_loss' = l
          /\ total_loss' = FloatAdd(total_loss, l)
    /\ grads' = "computed"
    /\ n_batches' = n_batches + 1
    /\ pc' = "val_fetch"
    /\ UNCHANGED <<cfg, error, splitVars, epoch, mode, params, opt_state,
                   sched_steps, clip_count, left, histVars, outVars, genVars>>

\* forward pass and losses under torch.no_grad(), and the running sums
ValForward ==
    /\ pc = "val_forward"
    /\ \E l \in ValBatchLosses :
          /\ batch_loss' = l
          /\ total_loss' = FloatAdd(total_loss, l)
    /\ n_batches' = n_batches + 1
    /\ pc' = "val_fetch"
    /\ UNCHANGED <<cfg, error, splitVars, epoch, mode, modelVars, left,
                   histVars, outVars, genVars>>

\* validate_epoch returns the epoch means (0 / 0 raises ZeroDivisionError when
\* the validation subset is empty); main() appends to val_losses.
ValReturn ==
    /\ pc = "val_fetch"
    /\ ~HasNextBatch(left, cfg.batch_size)
    /\ IF n_batches = 0
         THEN Fail("ZeroDivisionError") /\ UNCHANGED <<val_metrics, val_losses>>
         ELSE /\ val_metrics' = FloatDiv(total_loss, n_batches)
              /\ val_losses' = Append(val_losses, val_metrics')
              /\ pc' = "best"
              /\ error' = error
    /\ UNCHANGED <<cfg, splitVars, epoch, mode, modelVars, loopVars,
                   best_val_loss, train_losses, train_metrics, outVars, genVars>>

\* if val_metrics['total_loss'] < best_val_loss: save transformer_best.pt
SaveBest ==
    /\ pc = "best"
    /\ IF FloatLt(val_metrics, best_val_loss)
         THEN /\ best_val_loss' = val_metrics
              /\ files' = (BestFile :> Snapshot(BestKeys, epoch, train_metrics,
                                                val_metrics)) @@ files
         ELSE UNCHANGED <<best_val_loss, files>>
    /\ pc' = "plot"
    /\ UNCHANGED <<cfg, error, splitVars, epoch, mode, modelVars, loopVars,
                   train_losses, val_losses, train_metrics, val_metrics, plots,
                   genVars>>

\* plot_reconstruction_examples on the first epoch and every tenth: model.eval(),
\* one validation batch, a forward pass under torch.no_grad()
PlotExamples ==
    /\ pc = "plot"
    /\ IF PlotDue(epoch)
         THEN mode' = "eval" /\ plots' = plots \cup {epoch + 1}
         ELSE UNCHANGED <<mode, plots>>
    /\ pc' = "periodic"
    /\ UNCHANGED <<cfg, error, splitVars, epoch, modelVars, loopVars, histVars,
                   files, genVars>>

\* if (epoch + 1) % args.save_every == 0: save the per-epoch checkpoint
\* (the modulo raises ZeroDivisionError for --save_every 0); next epoch
SavePeriodic ==
    /\ pc = "periodic"
    /\ IF cfg.save_every = 0
         THEN Fail("ZeroDivisionError") /\ UNCHANGED <<files, epoch>>
         ELSE /\ IF PeriodicDue(epoch, cfg.save_every)
                   THEN files' = (PeriodicFile(epoch + 1) :>
                                     Snapshot(PeriodicKeys, epoch, NoValue,
                                              val_metrics)) @@ files
                   ELSE UNCHANGED files
              /\ epoch' = epoch + 1
              /\ pc' = "epoch"
              /\ error' = error
    /\ UNCHANGED <<cfg, splitVars, mode, modelVars, loopVars, histVars, plots,
                   genVars>>

\* after the loop: save transformer_final.pt
SaveFinal ==
    /\ pc = "epoch"
    /\ ~(epoch < cfg.epochs)
    /\ files' = (FinalFile :> Snapshot(FinalKeys, cfg.epochs, NoValue, NoValue))
                   @@ files
    /\ pc' = "curves"
    /\ UNCHANGED <<cfg, error, splitVars, epoch, mode, modelVars, loopVars,
                   histVars, plots, genVars>>

\* the training-curve plot and the closing messages
PlotCurves ==
    /\ pc = "curves"
    /\ pc' = "done"
    /\ UNCHANGED <<cfg, error, splitVars, epoch, mode, modelVars, loopVars,
                   histVars, outVars, genVars>>

Next ==
    \/ LoadData \/ SplitDataset \/ Setup \/ EpochStart
    \/ TrainFetch \/ TrainForward \/ TrainClip \/ TrainOptStep \/ TrainSchedStep
    \/ TrainReturn
    \/ ValStart \/ ValFetch \/ ValForward \/ ValReturn
    \/ SaveBest \/ PlotExamples \/ SavePeriodic \/ SaveFinal \/ PlotCurves

Spec == Init /\ [][Next]_vars


(***************************************************************************)
(* Properties of main(), train_epoch and validate_epoch.                   *)
(***************************************************************************)
TrainPositions == {"train_fetch", "train_forward", "train_clip", "train_opt",
                   "train_sched"}
ValPositions   == {"val_start", "val_fetch", "val_forward"}
AfterTrain     == ValPositions \cup {"best", "plot", "periodic"}

\* number of epochs whose "save best" step has been executed
BestStepsDone == IF pc = "best" THEN Len(val_losses) - 1 ELSE Len(val_losses)

\* the epochs (1-based) whose validation loss is strictly lower than that of
\* every earlier epoch
RecordEpochs ==
    { e \in 1..BestStepsDone :
        \A j \in 1..(e - 1) : FloatLt(val_losses[e], val_losses[j]) }

LastRecordEpoch == CHOOSE e \in RecordEpochs : \A d \in RecordEpochs : d <= e

\* C1: after each epoch best_val_loss is the minimum validation loss of the
\* epochs completed so far, the best snapshot holds the most recent epoch whose
\* loss is strictly lower than every earlier epoch's (the first epoch always is
\* one) with val_loss = best_val_loss, and so exists from the first epoch on.
C1_BestIsMinimumAndExists ==
    BestStepsDone >= 1 =>
        /\ \E i \in 1..BestStepsDone : val_losses[i] = best_val_loss
        /\ \A j \in 1..BestStepsDone : ~FloatLt(val_losses[j], best_val_loss)
        /\ BestFile \in DOMAIN files
        /\ files[BestFile].val_loss = best_val_loss
        /\ files[BestFile].epoch + 1 = LastRecordEpoch

ResumeKeys == {"model_state_dict", "optimizer_state_dict", "epoch", "config"}
LossKeys   == {"train_loss", "val_loss"}

\* C2: every snapshot of a completed run (best, periodic, final) holds the model
\* parameters, the optimizer state, the epoch index, loss values, the model
\* configuration and the scheduler step counter.
C2_SnapshotsComplete ==
    pc = "done" =>
        \A f \in DOMAIN files :
            /\ ResumeKeys \subseteq files[f].keys
            /\ files[f].keys \cap LossKeys # {}
            /\ "scheduler_state_dict" \in files[f].keys

\* epochs (1-based) whose periodic-checkpoint step has been executed
PeriodicStepsDone == epoch

C3_PeriodicExactly ==
    /\ \A e \in 1..PeriodicStepsDone :
          PeriodicFile(e) \in DOMAIN files <=> e % cfg.save_every = 0
    /\ \A f \in DOMAIN files :
          f[1] = "transformer_checkpoint_epoch" =>
             /\ f[2] \in 1..PeriodicStepsDone
             /\ files[f].epoch + 1 = f[2]
    /\ FinalFile \in DOMAIN files <=> pc \in {"curves", "done"}
    /\ FinalFile \in DOMAIN files => epoch = cfg.epochs

C3_WriteOnce ==
    /\ \A f \in DOMAIN files :
          f # BestFile => f \in DOMAIN files' /\ files'[f] = files[f]
    /\ BestFile \in DOMAIN files => BestFile \in DOMAIN files'
    /\ (FinalFile \in DOMAIN files' /\ FinalFile \notin DOMAIN files) =>
          pc = "epoch" /\ epoch = cfg.epochs

\* C3: a periodic snapshot exists for the 1-based epoch e exactly when e is a
\* multiple of save_every, in its own file that no later step rewrites or
\* removes, whatever the best snapshot did in that epoch; the final snapshot is
\* written once, when the last epoch has completed and not before.
C3_PeriodicAndFinal == [](C3_PeriodicExactly) /\ [][C3_WriteOnce]_vars

\* a completed three-epoch run with save_every 2: one periodic file, for epoch
\* 2, while the best snapshot was written in epoch 1 only
C3_Witness ==
    /\ pc = "done"
    /\ cfg.epochs = 3 /\ cfg.save_every = 2
    /\ DOMAIN files = {BestFile, PeriodicFile(2), FinalFile}
    /\ files[BestFile].epoch = 0

SharedTrainingState == <<params, grads, opt_state, sched_steps>>

\* C4: no step of validate_epoch changes the model parameters, the accumulated
\* gradients, the optimizer state or the scheduler step counter; only steps of
\* train_epoch do.
C4_ValidateReadsOnly ==
    [][ /\ pc \in ValPositions => SharedTrainingState' = SharedTrainingState
        /\ SharedTrainingState' # SharedTrainingState =>
              pc \in TrainPositions ]_vars

\* validate_epoch has processed a batch of a trained model that carries
\* gradients from the last training batch
C4_Witness ==
    /\ pc = "val_fetch"
    /\ n_batches >= 1
    /\ params >= 1 /\ opt_state >= 1 /\ sched_steps >= 1
    /\ grads = "clipped"

\* C5: a batch whose loss is NaN or Inf leaves the model parameters and the
\* optimizer state as they were (its optimizer step is skipped).
C5_NonFiniteStepSkipped ==
    [][ (pc = "train_opt" /\ ~IsFinite(batch_loss)) =>
            (params' = params /\ opt_state' = opt_state) ]_vars

NoTrainingStep ==
    /\ pc \notin (TrainPositions \ {"train_fetch"}) \cup AfterTrain
                    \cup {"curves", "done"}
    /\ clip_count = 0 /\ opt_state = 0 /\ sched_steps = 0
    /\ DOMAIN files = {}

\* C6: arrays of different shapes end the run with ShapeMismatchError and an
\* empty dataset ends it with EmptyDatasetError, in both cases before the first
\* training step: the run never gets past the construction of the dataset.
C6_BadInputRejected ==
    /\ cfg.n_flux # cfg.n_time =>
          /\ pc \in {"load", "split", "failed"}
          /\ pc = "failed" => error = "ShapeMismatchError"
          /\ NoTrainingStep
    /\ (cfg.n_flux = cfg.n_time /\ cfg.n_flux = 0) =>
          /\ pc \in {"load", "split", "failed"}
          /\ pc = "failed" => error = "EmptyDatasetError"
          /\ NoTrainingStep

TenSampleScenario ==
    /\ cfg.n_flux = 10 /\ cfg.batch_size = 2 /\ cfg.epochs = 1
    /\ cfg.val_pct = DefaultValPct

\* C8: one epoch over a 10-sample dataset with batch_size 2 and the default
\* validation split processes exactly 5 training batches, which together hold
\* every sample of the training subset once.
C8_FiveBatches ==
    TenSampleScenario =>
        /\ pc \in TrainPositions => n_batches <= 5 /\ opt_state <= 5
        /\ pc = "val_start" =>
              /\ n_batches = 5
              /\ left = 0
              /\ train_size = 9
        /\ pc \in AfterTrain \cup {"curves", "done"} => opt_state = 5

C8_Witness ==
    /\ TenSampleScenario
    /\ pc = "val_start"
    /\ n_batches = 5

BatchesPerEpoch == LoaderLen(train_size, cfg.batch_size)

C9_Counts ==
    /\ sched_steps <= total_steps
    /\ pc = "epoch" => sched_steps = epoch * BatchesPerEpoch
    /\ pc \in AfterTrain => sched_steps = (epoch + 1) * BatchesPerEpoch
    /\ pc \in {"curves", "done"} => sched_steps = total_steps
    /\ sched_steps <= opt_state
    /\ opt_state <= clip_count
    /\ clip_count <= sched_steps + 1

C9_Order ==
    /\ sched_steps' # sched_steps =>
          /\ sched_steps' = sched_steps + 1
          /\ pc = "train_sched"
          /\ opt_state = sched_steps + 1
          /\ clip_count = opt_state
    /\ opt_state' # opt_state =>
          /\ pc = "train_opt"
          /\ clip_count = opt_state + 1

\* C9: the scheduler advances once per training batch and at no other step:
\* k completed epochs of B batches leave its counter at k*B, the counter never
\* exceeds total_steps = B*E and equals it when training completes, and in each
\* batch the gradient is clipped before the optimizer step, which precedes the
\* scheduler step.
C9_SchedulerPerBatch == [](C9_Counts) /\ [][C9_Order]_vars

C9_Witness ==
    /\ pc = "done"
    /\ cfg.epochs >= 2
    /\ BatchesPerEpoch >= 2
    /\ sched_steps = total_steps


(***************************************************************************)
(* collate_with_masking and the block-mask generator (dynamic_block_mask   *)
(* of lcgen.data.masking).  Ratios are percentages.  The random draws      *)
(* range over evenly spread choices of the intervals they are uniform on.  *)
(***************************************************************************)
MaxAttempts == 4       \* placement-attempt budget of the generator
RatioDivs   == 2       \* ratio draws: the interval's ends and RatioDivs-1 points between
BlockDivs   == 1       \* block-size draws, likewise
StartDivs   == 4       \* start offsets: multiples of seq_len \div StartDivs, and the last one
CollateLen  == 3       \* seq_len of the small batches

Spread(lo, hi, divs) == { lo + (k * (hi - lo)) \div divs : k \in 0..divs }

Count(m) == Cardinality({ p \in 1..Len(m) : m[p] })

\* round(x) for x = n / d, halves rounded up
RoundDiv(n, d) == (2 * n + d) \div (2 * d)

Clamp(x, lo, hi) == Max2(lo, Min2(x, hi))

\* step 1: target masked-count = round(ratio * L) clamped to [1, L]
TargetCount(pct, L) == Clamp(RoundDiv(pct * L, 100), 1, L)

\* step 2: block sizes the draw can give, [min_block, min(max_block, L)],
\* shrunk to L when L < min_block
BlockSizes(minb, maxb, L) ==
    IF L < minb THEN {L}
    ELSE Spread(minb, Max2(minb, Min2(maxb, L)), BlockDivs)

\* step 3: valid start offsets of a block, [0, L - block_size]
StartOffsets(L, b) ==
    { st \in 0..(L - b) : st % Max2(1, L \div StartDivs) = 0 } \cup {L - b}

\* marking a block is idempotent on positions already masked
PlaceAt(m, st, b) ==
    [p \in 1..Len(m) |-> m[p] \/ (st + 1 <= p /\ p <= st + b)]

\* the copy of the raw values with the masked positions zeroed
FluxMasked(flux, m) == [p \in 1..Len(flux) |-> IF m[p] THEN 0 ELSE flux[p]]

\* mask.float()
MaskFloat(m) == [p \in 1..Len(m) |-> IF m[p] THEN 1 ELSE 0]

\* torch.stack([flux_masked, mask.float()], dim=-1)
Stack2(a, b) == [p \in 1..Len(a) |-> <<a[p], b[p]>>]

CollateMaxBlockAlwaysDefault(c) == c.seq_len \div 2
\* if max_block_size is None: max_block_size = seq_len // 2
CollateMaxBlock(c) ==
    IF c.has_max_block THEN c.max_block ELSE c.seq_len \div 2

\* the end-to-end scenario: L = 100, blocks of 1..20, ratios 0.1..0.5, 8 samples
EndToEndCfg == [seq_len |-> 100, batch |-> 8, min_block |-> 1,
                has_max_block |-> TRUE, max_block |-> 20,
                min_pct |-> 10, max_pct |-> 50]

\* small batches of two samples: main()'s call (max_block given, max ratio 0.5) and the
\* function's defaults (max_block None, max ratio 0.9)
CollateCfgs ==
    { [seq_len |-> CollateLen, batch |-> 2, min_block |-> 1,
       has_max_block |-> h, max_block |-> IF h THEN 2 ELSE 0,
       min_pct |-> 10, max_pct |-> IF h THEN 50 ELSE 90] : h \in BOOLEAN }

FluxValues == {0, 7}

GenFresh ==
    /\ gi = 0
    /\ target_count = 0
    /\ block_size = 0
    /\ mask = <<>>
    /\ attempts = 0
    /\ batch_inputs = <<>>
    /\ batch_targets = <<>>
    /\ batch_masks = <<>>

\* the loader hands collate_with_masking the batch of the end-to-end scenario
InitMask ==
    /\ MainIdle
    /\ gpc = "start"
    /\ gcfg = EndToEndCfg
    /\ batch_flux = [i \in 1..EndToEndCfg.batch |->
                        [p \in 1..EndToEndCfg.seq_len |-> 1]]
    /\ GenFresh

\* the loader hands collate_with_masking a small batch of raw sequences
InitCollate ==
    /\ MainIdle
    /\ gpc = "start"
    /\ gcfg \in CollateCfgs
    /\ batch_flux \in [1..2 -> [1..CollateLen -> FluxValues]]
    /\ GenFresh

\* stacking, the shape, the default of max_block_size and the empty lists
CollateStart ==
    /\ gpc = "start"
    /\ gcfg' = [gcfg EXCEPT !.max_block = CollateMaxBlock(gcfg),
                            !.has_max_block = TRUE]
    /\ gi' = 0
    /\ batch_inputs' = <<>>
    /\ batch_targets' = <<>>
    /\ batch_masks' = <<>>
    /\ gpc' = "loop"
    /\ UNCHANGED <<batch_flux, target_count, block_size, mask, attempts, mainVars>>

\* for i in range(batch_size): call dynamic_block_mask on sample i
CollateCall ==
    /\ gpc = "loop"
    /\ gi < gcfg.batch
    /\ gpc' = "gen_draw"
    /\ UNCHANGED <<gcfg, batch_flux, gi, target_count, block_size, mask, attempts,
                   batch_inputs, batch_targets, batch_masks, mainVars>>

\* generator, steps 1 and 2: the ratio and block-size draws, an empty mask
GenDraw ==
    /\ gpc = "gen_draw"
    /\ \E pct \in Spread(gcfg.min_pct, gcfg.max_pct, RatioDivs) :
          target_count' = TargetCount(pct, gcfg.seq_len)
    /\ \E b \in BlockSizes(gcfg.min_block, gcfg.max_block, gcfg.seq_len) :
          block_size' = b
    /\ mask' = [p \in 1..gcfg.seq_len |-> FALSE]
    /\ attempts' = 0
    /\ gpc' = "gen_place"
    /\ UNCHANGED <<gcfg, batch_flux, gi, batch_inputs, batch_targets, batch_masks,
                   mainVars>>

\* generator, step 3: one block placement, while the target is not reached and
\* the attempt budget lasts
GenPlace ==
    /\ gpc = "gen_place"
    /\ Count(mask) < target_count
    /\ attempts < MaxAttempts
    /\ \E st \in StartOffsets(gcfg.seq_len, block_size) :
          mask' = PlaceAt(mask, st, block_size)
    /\ attempts' = attempts + 1
    /\ UNCHANGED <<gpc, gcfg, batch_flux, gi, target_count, block_size,
                   batch_inputs, batch_targets, batch_masks, mainVars>>

\* generator, step 4: return the masked copy, the mask, the block size and the
\* achieved ratio
GenReturn ==
    /\ gpc = "gen_place"
    /\ ~(Count(mask) < target_count /\ attempts < MaxAttempts)
    /\ gpc' = "gen_done"
    /\ UNCHANGED <<gcfg, batch_flux, gi, target_count, block_size, mask, attempts,
                   batch_inputs, batch_targets, batch_masks, mainVars>>

CollateAppendMaskedTarget ==
    /\ gpc = "gen_done"
    /\ LET flux == batch_flux[gi + 1]
           flux_masked == FluxMasked(flux, mask)
       IN /\ batch_inputs' = Append(batch_inputs, Stack2(flux_masked, MaskFloat(mask)))
          /\ batch_targets' = Append(batch_targets, flux_masked)
          /\ batch_masks' = Append(batch_masks, mask)
    /\ gi' = gi + 1
    /\ gpc' = "loop"
    /\ UNCHANGED <<gcfg, batch_flux, target_count, block_size, mask, attempts,
                   mainVars>>

\* the two-channel input of the sample and the appends to the batch lists
CollateAppend ==
    /\ gpc = "gen_done"
    /\ LET flux == batch_flux[gi + 1]
           flux_masked == FluxMasked(flux, mask)
       IN /\ batch_inputs' = Append(batch_inputs, Stack2(flux_masked, MaskFloat(mask)))
          /\ batch_targets' = Append(batch_targets, flux)
          /\ batch_masks' = Append(batch_masks, mask)
    /\ gi' = gi + 1
    /\ gpc' = "loop"
    /\ UNCHANGED <<gcfg, batch_flux, target_count, block_size, mask, attempts,
                   mainVars>>

\* the loop over the samples, seen from the generator: the finished mask is
\* handed over and the next sample's invocation starts from nothing
NextInvocation ==
    /\ gpc = "gen_done"
    /\ gi' = gi + 1
    /\ gpc' = "loop"
    /\ UNCHANGED <<gcfg, batch_flux, target_count, block_size, mask, attempts,
                   batch_inputs, batch_targets, batch_masks, mainVars>>

\* return of the stacked batch
CollateReturn ==
    /\ gpc = "loop"
    /\ ~(gi < gcfg.batch)
    /\ gpc' = "returned"
    /\ UNCHANGED <<gcfg, batch_flux, gi, target_count, block_size, mask, attempts,
                   batch_inputs, batch_targets, batch_masks, mainVars>>

NextCollate ==
    \/ CollateStart \/ CollateCall \/ GenDraw \/ GenPlace \/ GenReturn
    \/ CollateAppend \/ CollateReturn

SpecCollate == InitCollate /\ [][NextCollate]_vars

NextMask ==
    \/ CollateStart \/ CollateCall \/ GenDraw \/ GenPlace \/ GenReturn
    \/ NextInvocation \/ CollateReturn

SpecMask == InitMask /\ [][NextMask]_vars


(***************************************************************************)
(* Properties of the mask generator and of the batch assembler.            *)
(***************************************************************************)
\* every masked position lies in a window of b consecutive masked positions
UnionOfBlocks(m, b) ==
    \A p \in 1..Len(m) :
        m[p] => \E st \in Max2(0, p - b)..Min2(p - 1, Len(m) - b) :
                    \A q \in (st + 1)..(st + b) : m[q]

MaskShape ==
    /\ gi \in 0..(gcfg.batch - 1)
    /\ Len(mask) = gcfg.seq_len
    /\ Count(mask) >= 1
    /\ block_size >= 1
    /\ block_size <= 20
    /\ UnionOfBlocks(mask, block_size)

\* C7 as claimed: in the end-to-end scenario every sample's mask has length L,
\* a masked position, an achieved ratio within [0.1, 0.5], and is a union of
\* blocks of one size that is at most 20.
C7_RatioWithinBounds ==
    gpc = "gen_done" =>
        /\ MaskShape
        /\ 100 * Count(mask) >= gcfg.min_pct * gcfg.seq_len
        /\ 100 * Count(mask) <= gcfg.max_pct * gcfg.seq_len

\* C7 as amended: every sample's mask has length L, a masked position, and is a
\* union of blocks of one size that is at most 20; its masked count exceeds the
\* target count drawn within [0.1 L, 0.5 L] by less than one block, and reaches
\* the target (ratio >= 0.1) unless the placement budget ran out.
C7_RatioWithinBlockOfTarget ==
    gpc = "gen_done" =>
        /\ MaskShape
        /\ 100 * target_count >= gcfg.min_pct * gcfg.seq_len
        /\ 100 * target_count <= gcfg.max_pct * gcfg.seq_len
        /\ Count(mask) < target_count + block_size
        /\ Count(mask) >= target_count \/ attempts = MaxAttempts

\* a sample of the scenario whose blocks of 20 overshoot the target of 50
C7_Witness ==
    /\ gpc = "gen_done"
    /\ gi = 7
    /\ gcfg.seq_len = 100
    /\ block_size = 20
    /\ target_count = 50
    /\ Count(mask) = 60

C10_Batch ==
    /\ Len(batch_inputs) = gi /\ Len(batch_targets) = gi /\ Len(batch_masks) = gi
    /\ gpc = "returned" => gi = gcfg.batch
    /\ \A i \in 1..Len(batch_targets) :
          /\ batch_targets[i] = batch_flux[i]
          /\ Len(batch_inputs[i]) = gcfg.seq_len
          /\ \A p \in 1..gcfg.seq_len :
                /\ batch_inputs[i][p][1] =
                      (IF batch_masks[i][p] THEN 0 ELSE batch_flux[i][p])
                /\ batch_inputs[i][p][2] = (IF batch_masks[i][p] THEN 1 ELSE 0)

C10_OwnInvocation ==
    /\ batch_masks' # batch_masks =>
          /\ gpc = "gen_done"
          /\ batch_masks' = Append(batch_masks, mask)
    /\ (gpc = "gen_draw" /\ gpc' # gpc) => Count(mask') = 0 /\ attempts' = 0

\* C10: in every batch the target is the raw value sequence at every position,
\* input channel 0 is zero where the mask is set and the raw value elsewhere,
\* input channel 1 is the mask as 0/1, and each sample's mask is the result of
\* a generator invocation of its own that starts from an empty mask.
C10_TargetUnmaskedInputMasked == [](C10_Batch) /\ [][C10_OwnInvocation]_vars

\* a returned batch whose samples got different masks, one of them hiding a
\* non-zero raw value
C10_Witness ==
    /\ gpc = "returned"
    /\ batch_masks[1] # batch_masks[2]
    /\ \E p \in 1..gcfg.seq_len :
          /\ batch_masks[1][p] /\ batch_flux[1][p] # 0
          /\ batch_inputs[1][p] = <<0, 1>>
          /\ batch_targets[1][p] = batch_flux[1][p]
    /\ \E p \in 1..gcfg.seq_len : ~batch_masks[1][p] /\ batch_flux[1][p] # 0

=============================================================================
